---- MODULE Spec2Model ----
(***************************************************************************)
(* Model of data_structures/linkedlist.py and data_structures/node.py:     *)
(* a singly linked list of Node objects.  Node objects live in a heap      *)
(* (a sequence indexed by object identity); a reference is a heap index    *)
(* and None is 0.  The caller's script owns one Python list `nodes` that   *)
(* it may hand to the LinkedList constructor, and one LinkedList variable. *)
(***************************************************************************)
EXTENDS Integers, Sequences, FiniteSets

\* ---------------------------------------------------------------- bounds
MaxVal == 2      \* data values are 1..MaxVal
MaxLen == 3      \* longest list the caller hands to the constructor
MaxNodes == 3    \* Node objects created in one run

Values == 1..MaxVal
None == 0

RECURSIVE SeqsUpTo(_)
SeqsUpTo(n) ==
    IF n = 0 THEN {<<>>}
    ELSE LET S == SeqsUpTo(n - 1)
         IN  S \cup {Append(s, v) : s \in {x \in S : Len(x) = n - 1}, v \in Values}

VARIABLES
    heap,        \* every Node created so far: heap[i] = [data, next]
    head,        \* LinkedList.head of the caller's list object (None when empty)
    constructed, \* the caller holds a LinkedList object
    nodes,       \* the Python list object the caller passes to LinkedList(...)
    last,        \* the call that was made last, its arguments and the exception it raised
    length       \* length of the caller's list object as its calls account for it

vars == <<heap, head, constructed, nodes, last, length>>

\* ------------------------------------------------------------------ Node
\* Node.__init__
Node(d) == [data |-> d, next |-> None]

\* ------------------------------------------------------------ LinkedList
\* LinkedList.__iter__: the nodes yielded, in order.  A walk is cut after
\* Len(hp) + 1 nodes, which only a cyclic chain can reach.
RECURSIVE IterFrom(_, _, _)
IterFrom(hp, node, fuel) ==
    IF node = None \/ fuel = 0 THEN <<>>
    ELSE <<node>> \o IterFrom(hp, hp[node].next, fuel - 1)

Iter(hd, hp) == IterFrom(hp, hd, Len(hp) + 1)

\* the data of the nodes a traversal yields
DataOf(hd, hp) == [i \in 1..Len(Iter(hd, hp)) |-> hp[Iter(hd, hp)[i]].data]

\* the for loop of LinkedList.__init__: node.next = Node(elem); node = node.next
RECURSIVE InitLoop(_, _, _)
InitLoop(hp, node, elems) ==
    IF elems = <<>> THEN hp
    ELSE LET new == Len(hp) + 1
             hp1 == Append(hp, Node(Head(elems)))
         IN  InitLoop([hp1 EXCEPT ![node].next = new], new, Tail(elems))

\* mutant: each further node is linked to the head node instead of the last one
LinkedListInitFlat(hp, isNone, lst) ==
    IF isNone THEN [head |-> None, heap |-> hp, nodes |-> lst, exc |-> "none"]
    ELSE IF lst = <<>> THEN [head |-> None, heap |-> hp, nodes |-> lst, exc |-> "IndexError"]
    ELSE LET node == Len(hp) + 1
             rest == Tail(lst)
             hp1 == Append(hp, Node(Head(lst))) \o [i \in 1..Len(rest) |-> Node(rest[i])]
         IN  [head |-> node,
              heap |-> IF rest = <<>> THEN hp1 ELSE [hp1 EXCEPT ![node].next = Len(hp1)],
              nodes |-> rest, exc |-> "none"]

\* LinkedList.__init__(nodes): isNone stands for `nodes is None`; lst is the
\* content of the list object otherwise.  nodes.pop(0) raises IndexError on
\* an empty list and removes the first element of the caller's list.
LinkedListInit(hp, isNone, lst) ==
    IF isNone THEN [head |-> None, heap |-> hp, nodes |-> lst, exc |-> "none"]
    ELSE IF lst = <<>> THEN [head |-> None, heap |-> hp, nodes |-> lst, exc |-> "IndexError"]
    ELSE LET node == Len(hp) + 1
             hp1 == Append(hp, Node(Head(lst)))
             rest == Tail(lst)
         IN  [head |-> node, heap |-> InitLoop(hp1, node, rest),
              nodes |-> rest, exc |-> "none"]

\* mutant: node.next is not set
add_first_nolink(hd, hp, node) ==
    [head |-> node, heap |-> hp, exc |-> "none", arg |-> 0]

\* LinkedList.add_first
add_first(hd, hp, node) ==
    [head |-> node, heap |-> [hp EXCEPT ![node].next = hd], exc |-> "none", arg |-> 0]

\* mutant: the node is linked after the head node, not after the last one
add_last_athead(hd, hp, node) ==
    IF hd = None THEN [head |-> node, heap |-> hp, exc |-> "none", arg |-> 0]
    ELSE [head |-> hd, heap |-> [hp EXCEPT ![hd].next = node], exc |-> "none", arg |-> 0]

\* LinkedList.add_last: current_node is the last node the for loop yields
add_last(hd, hp, node) ==
    IF hd = None THEN [head |-> node, heap |-> hp, exc |-> "none", arg |-> 0]
    ELSE LET it == Iter(hd, hp)
             current_node == it[Len(it)]
         IN  [head |-> hd, heap |-> [hp EXCEPT ![current_node].next = node],
              exc |-> "none", arg |-> 0]

\* index in `it` of the first node at or after position i whose data is t, 0 if none
RECURSIVE FirstMatch(_, _, _, _)
FirstMatch(hp, it, i, t) ==
    IF i > Len(it) THEN 0
    ELSE IF hp[it[i]].data = t THEN i
    ELSE FirstMatch(hp, it, i + 1, t)

\* mutant: the two assignments of the splice are swapped
add_after_swapped(hd, hp, target_node_data, new_node) ==
    IF hd = None THEN [head |-> hd, heap |-> hp, exc |-> "List is empty", arg |-> 0]
    ELSE LET it == Iter(hd, hp)
             k == FirstMatch(hp, it, 1, target_node_data)
         IN  IF k = 0
             THEN [head |-> hd, heap |-> hp, exc |-> "Node with data '%s' not found",
                   arg |-> target_node_data]
             ELSE LET node == it[k]
                      hp1 == [hp EXCEPT ![node].next = new_node]
                  IN  [head |-> hd,
                       heap |-> [hp1 EXCEPT ![new_node].next = hp1[node].next],
                       exc |-> "none", arg |-> 0]

\* mutant: the loop does not return at the first match, so the last match wins
add_after_lastmatch(hd, hp, target_node_data, new_node) ==
    IF hd = None THEN [head |-> hd, heap |-> hp, exc |-> "List is empty", arg |-> 0]
    ELSE LET it == Iter(hd, hp)
             ks == {i \in 1..Len(it) : hp[it[i]].data = target_node_data}
         IN  IF ks = {}
             THEN [head |-> hd, heap |-> hp, exc |-> "Node with data '%s' not found",
                   arg |-> target_node_data]
             ELSE LET node == it[CHOOSE i \in ks : \A j \in ks : j <= i]
                  IN  [head |-> hd,
                       heap |-> [hp EXCEPT ![new_node].next = hp[node].next,
                                           ![node].next = new_node],
                       exc |-> "none", arg |-> 0]

\* LinkedList.add_after
add_after(hd, hp, target_node_data, new_node) ==
    IF hd = None THEN [head |-> hd, heap |-> hp, exc |-> "List is empty", arg |-> 0]
    ELSE LET it == Iter(hd, hp)
             k == FirstMatch(hp, it, 1, target_node_data)
         IN  IF k = 0
             THEN [head |-> hd, heap |-> hp, exc |-> "Node with data '%s' not found",
                   arg |-> target_node_data]
             ELSE LET node == it[k]
                      hp1 == [hp EXCEPT ![new_node].next = hp[node].next]
                  IN  [head |-> hd, heap |-> [hp1 EXCEPT ![node].next = new_node],
                       exc |-> "none", arg |-> 0]

\* the for loop of LinkedList.remove_node over the nodes `it` yields, from
\* position i on, with previous_node as the loop left it
RECURSIVE RemoveLoop(_, _, _, _, _, _)
RemoveLoop(hd, hp, it, i, previous_node, t) ==
    IF i > Len(it)
    THEN [head |-> hd, heap |-> hp, exc |-> "Node with data '%s' not found", arg |-> t]
    ELSE LET node == it[i]
         IN  IF hp[node].data = t
             THEN [head |-> hd, heap |-> [hp EXCEPT ![previous_node].next = hp[node].next],
                   exc |-> "none", arg |-> 0]
             ELSE RemoveLoop(hd, hp, it, i + 1, node, t)

\* mutant: previous_node is never advanced
remove_node_stuckprev(hd, hp, target_node_data) ==
    IF hd = None THEN [head |-> hd, heap |-> hp, exc |-> "List is empty", arg |-> 0]
    ELSE IF hp[hd].data = target_node_data
    THEN [head |-> hp[hd].next, heap |-> hp, exc |-> "none", arg |-> 0]
    ELSE LET it == Iter(hd, hp)
             k == FirstMatch(hp, it, 1, target_node_data)
         IN  IF k = 0
             THEN [head |-> hd, heap |-> hp, exc |-> "Node with data '%s' not found",
                   arg |-> target_node_data]
             ELSE [head |-> hd, heap |-> [hp EXCEPT ![hd].next = hp[it[k]].next],
                   exc |-> "none", arg |-> 0]

\* mutant: the empty-list check is missing
remove_node_nocheck(hd, hp, target_node_data) ==
    IF hd # None /\ hp[hd].data = target_node_data
    THEN [head |-> hp[hd].next, heap |-> hp, exc |-> "none", arg |-> 0]
    ELSE RemoveLoop(hd, hp, Iter(hd, hp), 1, hd, target_node_data)

\* LinkedList.remove_node
remove_node(hd, hp, target_node_data) ==
    IF hd = None THEN [head |-> hd, heap |-> hp, exc |-> "List is empty", arg |-> 0]
    ELSE IF hp[hd].data = target_node_data
    THEN [head |-> hp[hd].next, heap |-> hp, exc |-> "none", arg |-> 0]
    ELSE RemoveLoop(hd, hp, Iter(hd, hp), 1, hd, target_node_data)

\* ------------------------------------------------------- the caller's run
\* a call as the caller made it: input is the content of the list handed to
\* LinkedList(...), target the value searched, exc and arg what was raised
Call(op, isNone, input, target, exc, arg) ==
    [op |-> op, isNone |-> isNone, input |-> input, target |-> target,
     exc |-> exc, arg |-> arg]

Init ==
    /\ heap = <<>>
    /\ head = None
    /\ constructed = FALSE
    /\ nodes = <<>>
    /\ last = Call("start", FALSE, <<>>, 0, "none", 0)
    /\ length = 0

\* llist = LinkedList(...) where __init__ got the list content lst (isNone
\* for no list).  When __init__ raises, the assignment does not happen and
\* the caller keeps the LinkedList it had.
Construct(op, isNone, lst) ==
    LET r == LinkedListInit(heap, isNone, lst)
    IN  /\ last' = Call(op, isNone, IF isNone THEN <<>> ELSE lst, 0, r.exc, 0)
        /\ nodes' = r.nodes
        /\ heap' = r.heap
        /\ IF r.exc = "none"
           THEN /\ head' = r.head
                /\ constructed' = TRUE
                /\ length' = IF isNone THEN 0 ELSE Len(lst)
           ELSE UNCHANGED <<head, constructed, length>>

\* llist = LinkedList()
ConstructDefault == Construct("init", TRUE, nodes)

\* nodes = [...]; llist = LinkedList(nodes)
ConstructFromList ==
    \E lst \in SeqsUpTo(MaxLen) :
        /\ Len(heap) + Len(lst) <= MaxNodes
        /\ Construct("init", FALSE, lst)

\* llist = LinkedList(nodes) with the list object as the previous
\* LinkedList(nodes) left it (an empty list before the first one)
ConstructAgain ==
    /\ Len(heap) + Len(nodes) <= MaxNodes
    /\ Construct("again", FALSE, nodes)

\* the state after a call on llist that returned r; delta is what a
\* successful call adds to the length
Returned(r, op, target, delta) ==
    /\ last' = Call(op, FALSE, <<>>, target, r.exc, r.arg)
    /\ head' = r.head
    /\ heap' = r.heap
    /\ length' = IF r.exc = "none" THEN length + delta ELSE length
    /\ UNCHANGED <<constructed, nodes>>

\* llist.add_first(Node(v))
AddFirst ==
    /\ constructed
    /\ Len(heap) < MaxNodes
    /\ \E v \in Values :
         LET hp0 == Append(heap, Node(v))
         IN  Returned(add_first(head, hp0, Len(hp0)), "add_first", 0, 1)

\* llist.add_last(Node(v))
AddLast ==
    /\ constructed
    /\ Len(heap) < MaxNodes
    /\ \E v \in Values :
         LET hp0 == Append(heap, Node(v))
         IN  Returned(add_last(head, hp0, Len(hp0)), "add_last", 0, 1)

\* llist.add_after(t, Node(v))
AddAfter ==
    /\ constructed
    /\ Len(heap) < MaxNodes
    /\ \E t \in Values, v \in Values :
         LET hp0 == Append(heap, Node(v))
         IN  Returned(add_after(head, hp0, t, Len(hp0)), "add_after", t, 1)

\* llist.remove_node(t)
RemoveNode ==
    /\ constructed
    /\ \E t \in Values :
         Returned(remove_node(head, heap, t), "remove_node", t, -1)

Next ==
    \/ ConstructDefault
    \/ ConstructFromList
    \/ ConstructAgain
    \/ AddFirst
    \/ AddLast
    \/ AddAfter
    \/ RemoveNode

Spec == Init /\ [][Next]_vars

\* --------------------------------------------------------------- claims
CurIter == Iter(head, heap)
CurData == DataOf(head, heap)
Chain == {CurIter[i] : i \in 1..Len(CurIter)}
NewNode == Len(heap)
NotFound == "Node with data '%s' not found"
FromList(c) == c.op \in {"init", "again"} /\ ~c.isNone
Occurs(L, t) == \E i \in 1..Len(L) : L[i] = t
FirstIndex(L, t) == CHOOSE i \in 1..Len(L) : L[i] = t /\ \A j \in 1..(i - 1) : L[j] # t
RemoveAt(L, k) == SubSeq(L, 1, k - 1) \o SubSeq(L, k + 1, Len(L))
InsertAfter(L, k, x) == SubSeq(L, 1, k) \o <<x>> \o SubSeq(L, k + 1, Len(L))

\* the references that lead to node n from the list object or from a node of S
PredsIn(S, n) ==
    {<<"node", m>> : m \in {x \in S : heap[x].next = n}}
        \cup (IF head = n THEN {<<"head", 0>>} ELSE {})

\* C1: constructing a LinkedList from an empty list succeeds without error
\* and yields an empty list (head is None, the traversal yields nothing).
C1_EmptyInputYieldsEmptyList ==
    (FromList(last) /\ last.input = <<>>) =>
        (last.exc = "none" /\ head = None /\ CurIter = <<>>)

\* C2: constructing from a non-empty list S yields exactly Len(S) nodes whose
\* data are the elements of S in order, and the last node's next is None.
C2_ConstructionKeepsOrder ==
    (FromList(last) /\ last.input # <<>>) =>
        /\ last.exc = "none"
        /\ Len(CurIter) = Len(last.input)
        /\ CurData = last.input
        /\ heap[CurIter[Len(CurIter)]].next = None

C2_Witness ==
    /\ FromList(last)
    /\ Len(last.input) = 3
    /\ last.input[1] = last.input[3]
    /\ last.input[1] # last.input[2]
    /\ CurData = last.input

\* C3: add_after and remove_node raise "List is empty" exactly when head is
\* None, and "not found" (carrying the target) exactly when the list is
\* non-empty and no node holds the target; a failing call leaves head, the
\* traversal and every node (the new node included) as they were.
C3_FailuresExactAndFrameless ==
    [][(last'.op \in {"add_after", "remove_node"}) =>
        /\ (last'.exc = "List is empty") <=> (head = None)
        /\ (last'.exc = NotFound) <=> (head # None /\ ~Occurs(CurData, last'.target))
        /\ (last'.exc = NotFound) => (last'.arg = last'.target)
        /\ (last'.exc # "none") =>
               /\ head' = head
               /\ CurIter' = CurIter
               /\ CurData' = CurData
               /\ \A n \in 1..Len(heap) : heap'[n] = heap[n]
               /\ IF last'.op = "add_after"
                  THEN Len(heap') = Len(heap) + 1 /\ heap'[Len(heap')].next = None
                  ELSE heap' = heap]_vars

C3_Witness ==
    /\ last.op = "add_after"
    /\ last.exc = NotFound
    /\ last.arg = last.target
    /\ Len(CurData) = 2
    /\ NewNode \notin Chain
    /\ heap[NewNode].next = None

\* C4: remove_node(t) with t in the list succeeds and deletes exactly the
\* first occurrence of t: one element fewer, later duplicates and the order
\* of the others kept.
C4_RemoveFirstOccurrence ==
    [][(last'.op = "remove_node" /\ Occurs(CurData, last'.target)) =>
        /\ last'.exc = "none"
        /\ Len(CurData') = Len(CurData) - 1
        /\ CurData' = RemoveAt(CurData, FirstIndex(CurData, last'.target))
        /\ CurIter' = RemoveAt(CurIter, FirstIndex(CurData, last'.target))]_vars

C4_Witness ==
    /\ last.op = "remove_node"
    /\ last.exc = "none"
    /\ Len(CurData) = 2
    /\ CurData[1] # last.target
    /\ CurData[2] = last.target
    /\ \E u \in 1..Len(heap) :
           u \notin Chain /\ heap[u].data = last.target /\ heap[u].next = CurIter[2]

\* C5: add_after(t, n) with t in the list succeeds and inserts n's data right
\* after the first node equal to t, also when t occurs again later or the
\* match is the last node; one element more, the others keep their order.
C5_AddAfterFirstMatch ==
    [][(last'.op = "add_after" /\ Occurs(CurData, last'.target)) =>
        /\ last'.exc = "none"
        /\ Len(CurData') = Len(CurData) + 1
        /\ CurData' = InsertAfter(CurData, FirstIndex(CurData, last'.target),
                                  heap'[Len(heap')].data)
        /\ CurIter' = InsertAfter(CurIter, FirstIndex(CurData, last'.target),
                                  Len(heap'))]_vars

C5_Witness ==
    /\ last.op = "add_after"
    /\ last.exc = "none"
    /\ Len(CurData) = 3
    /\ CurData[1] = last.target
    /\ CurData[3] = last.target
    /\ CurData[2] # last.target
    /\ CurIter[2] = NewNode

\* C6: add_last(n) never fails and the traversal becomes the old one
\* followed by n: on an empty list n is head and the only element, otherwise
\* n is the last node (next None) and the earlier nodes are unchanged.
C6_AddLastAppends ==
    [][(last'.op = "add_last") =>
        /\ last'.exc = "none"
        /\ CurData' = Append(CurData, heap'[Len(heap')].data)
        /\ CurIter' = Append(CurIter, Len(heap'))
        /\ heap'[Len(heap')].next = None
        /\ (head = None) => (head' = Len(heap') /\ Len(CurIter') = 1)
        /\ (head # None) => (head' = head)]_vars

C6_Witness ==
    /\ last.op = "add_last"
    /\ Len(CurData) = 3
    /\ CurIter[3] = NewNode
    /\ heap[NewNode].next = None

\* C7: add_first(n) never fails and the traversal becomes n followed by the
\* old one: n is the head, n.next is the old head, one element more.
C7_AddFirstPrepends ==
    [][(last'.op = "add_first") =>
        /\ last'.exc = "none"
        /\ head' = Len(heap')
        /\ heap'[Len(heap')].next = head
        /\ CurData' = <<heap'[Len(heap')].data>> \o CurData
        /\ CurIter' = <<Len(heap')>> \o CurIter
        /\ Len(CurIter') = Len(CurIter) + 1]_vars

C7_Witness ==
    /\ last.op = "add_first"
    /\ Len(CurData) = 3
    /\ head = NewNode
    /\ heap[NewNode].next = CurIter[2]

\* C8: after construction and any calls with fresh nodes the chain is linear
\* and acyclic: following next from head reaches None after as many steps as
\* the list is long (initial length plus insertions minus removals), no node
\* is visited twice, and no node of the chain has two predecessors in it.
C8_ChainLinearAcyclic ==
    constructed =>
        /\ Len(CurIter) <= Len(heap)
        /\ Len(CurIter) = length
        /\ \A i, j \in 1..Len(CurIter) : (CurIter[i] = CurIter[j]) => (i = j)
        /\ \A i \in 1..Len(CurIter) :
               /\ heap[CurIter[i]].next = (IF i = Len(CurIter) THEN None ELSE CurIter[i + 1])
               /\ Cardinality(PredsIn(Chain, CurIter[i])) = 1

C8_Witness ==
    /\ constructed
    /\ last.op = "add_after"
    /\ last.exc = "none"
    /\ length = 2
    /\ Len(CurIter) = 2
    /\ \E u \in 1..Len(heap) : u \notin Chain /\ heap[u].next \in Chain

\* C9: every Node that exists, a node unlinked by remove_node included, has
\* a next that is None or exclusively owned: no node is the target of two
\* nodes' next links, nor of both the list's head and a node's next link.
C9_ExclusiveOwnership ==
    \A n \in 1..Len(heap) : Cardinality(PredsIn(1..Len(heap), n)) <= 1

\* C10: constructing from a non-empty list removes exactly the first element
\* of the caller's list (a one-element list is left empty), and constructing
\* a second LinkedList from the same list object right away yields the
\* original sequence without its first element.
C10_ConstructionPopsCallerList ==
    [][/\ (FromList(last') /\ last'.input # <<>>) => (nodes' = Tail(last'.input))
       /\ (FromList(last') /\ Len(last'.input) = 1) => (nodes' = <<>>)
       /\ (FromList(last) /\ last.input # <<>> /\ last'.op = "again") =>
              /\ last'.exc = "none"
              /\ CurData' = Tail(last.input)]_vars

====
